---- MODULE Spec2Model ----
(***************************************************************************)
(* The referendum pipeline of pandas_questions.py: load_data,              *)
(* merge_regions_and_departments, merge_referendum_and_areas,              *)
(* compute_referendum_result_by_regions and plot_referendum_map, run in    *)
(* the order of the __main__ block.                                        *)
(*                                                                         *)
(* A DataFrame is an object on a heap: a record                            *)
(*   [index_name, index, columns, rows]                                    *)
(* where index is the sequence of row labels, columns the sequence of      *)
(* column names and rows the sequence of rows (a row is a function from    *)
(* the column names to the cell values).  Python names hold object ids, so *)
(* that an in-place write is visible through every name of the object.     *)
(* A string that the code inspects character by character (a department    *)
(* code) is a sequence of one-character strings.                           *)
(***************************************************************************)
EXTENDS Integers, Sequences, FiniteSets, TLC

VARIABLES data, pandas_zfill_signs, heap, pc,
          referendum, df_reg, df_dep, regions_and_departments,
          referendum_and_areas, referendum_results, map_result, origin

vars == <<data, pandas_zfill_signs, heap, pc, referendum, df_reg, df_dep,
          regions_and_departments, referendum_and_areas, referendum_results,
          map_result, origin>>

----------------------------------------------------------------------------
(* Bounds of the input files.                                              *)

MaxRegions == 2

MaxDepartments == 2

MaxBallots == 2

MaxBoundaries == 2

----------------------------------------------------------------------------
(* Generic helpers.                                                        *)

Range(s) == {s[i] : i \in DOMAIN s}

SeqsUpTo(S, n) == UNION {[1..k -> S] : k \in 0..n}

RECURSIVE Flatten(_)
Flatten(ss) == IF ss = <<>> THEN <<>> ELSE Head(ss) \o Flatten(Tail(ss))

RECURSIVE SumSeq(_)
SumSeq(s) == IF s = <<>> THEN 0 ELSE Head(s) + SumSeq(Tail(s))

RECURSIVE GCD(_, _)
GCD(a, b) == IF b = 0 THEN a ELSE GCD(b, a % b)

(* The positions of a sequence of booleans that hold TRUE, in order.        *)
RECURSIVE TruePositionsFrom(_, _)
TruePositionsFrom(mask, i) ==
    IF i > Len(mask) THEN <<>>
    ELSE (IF mask[i] THEN <<i>> ELSE <<>>) \o TruePositionsFrom(mask, i + 1)

TruePositions(mask) == TruePositionsFrom(mask, 1)

----------------------------------------------------------------------------
(* Cell values.                                                            *)

(* The missing value of a numeric column; the counts of the data are >= 0. *)
NaN == -1

(* The missing value of a string column.                                   *)
NaNStr == "NaN"

(* Region codes in the lexicographic order of the strings, which is the    *)
(* order groupby sorts its keys in.                                        *)
RegionCodeOrder == <<"11", "84">>

RegionCodes == Range(RegionCodeOrder)

StrLess(a, b) ==
    \E i, j \in DOMAIN RegionCodeOrder :
        RegionCodeOrder[i] = a /\ RegionCodeOrder[j] = b /\ i < j

RegionNames == {"Auvergne-Rhône-Alpes", "Île-de-France"}

----------------------------------------------------------------------------
(* DataFrames.                                                             *)

RangeIndex(n) == [i \in 1..n |-> i - 1]

Frame(index_name, index, columns, rows) ==
    [index_name |-> index_name, index |-> index,
     columns |-> columns, rows |-> rows]

(* pd.read_csv / gpd.read_file: the table of the file under a RangeIndex.  *)
ReadFile(file) ==
    Frame("None", RangeIndex(Len(file.rows)), file.columns, file.rows)

(* The value of a key of row i: a column, or the index level of that name. *)
KeyOf(f, i, name) ==
    IF name \in Range(f.columns) THEN f.rows[i][name] ELSE f.index[i]

(* df[[c1, ..., cn]]: a new frame with these columns, same index.          *)
SelectColumns(f, cols) ==
    Frame(f.index_name, f.index, cols,
          [i \in DOMAIN f.rows |-> [c \in Range(cols) |-> f.rows[i][c]]])

(* df.columns = names: the same cells under new column names.              *)
RenameColumns(f, names) ==
    Frame(f.index_name, f.index, names,
          [i \in DOMAIN f.rows |->
              [c \in Range(names) |->
                  f.rows[i][f.columns[CHOOSE k \in DOMAIN names : names[k] = c]]]])

(* df[mask]: a new frame with the rows whose mask is true, labels kept.    *)
BoolIndex(f, mask) ==
    LET keep == TruePositions(mask)
    IN Frame(f.index_name, [k \in DOMAIN keep |-> f.index[keep[k]]], f.columns,
             [k \in DOMAIN keep |-> f.rows[keep[k]]])

(* df[col] = values: the column is replaced, or appended when it is new.   *)
SetColumn(f, col, values) ==
    LET cols == IF col \in Range(f.columns) THEN f.columns
                ELSE Append(f.columns, col)
    IN Frame(f.index_name, f.index, cols,
             [i \in DOMAIN f.rows |->
                 [c \in Range(cols) |->
                     IF c = col THEN values[i] ELSE f.rows[i][c]]])

(* reset_index(): the index becomes the first column, under a RangeIndex.  *)
ResetIndex(f) ==
    LET cols == <<f.index_name>> \o f.columns
    IN Frame("None", RangeIndex(Len(f.rows)), cols,
             [i \in DOMAIN f.rows |->
                 [c \in Range(cols) |->
                     IF c = f.index_name THEN f.index[i] ELSE f.rows[i][c]]])

(* set_index(col): the column becomes the index and leaves the columns.    *)
SetIndex(f, col) ==
    LET keep == TruePositions([k \in DOMAIN f.columns |-> f.columns[k] # col])
        cols == [k \in DOMAIN keep |-> f.columns[keep[k]]]
    IN Frame(col, [i \in DOMAIN f.rows |-> f.rows[i][col]], cols,
             [i \in DOMAIN f.rows |-> [c \in Range(cols) |-> f.rows[i][c]]])

----------------------------------------------------------------------------
(* pd.merge.                                                               *)

NumericColumns == {"Registered", "Abstentions", "Null", "Choice A", "Choice B"}

NullOf(c) == IF c \in NumericColumns THEN NaN ELSE NaNStr

(* The join indexers: the pairs <<i, j>> of a left row and a right row     *)
(* with equal keys, in the order of the left rows and, for one left row,   *)
(* of the right rows.  When every is TRUE the keys are not compared; when  *)
(* how is "left" a left row without a match is kept once, as <<i, 0>>.     *)
JoinIndexers(l, r, left_on, right_on, how, every) ==
    Flatten([i \in DOMAIN l.rows |->
        LET hits == TruePositions([j \in DOMAIN r.rows |->
                        every \/ KeyOf(r, j, right_on) = KeyOf(l, i, left_on)])
        IN IF hits = <<>> /\ how = "left" THEN << <<i, 0>> >>
           ELSE [k \in DOMAIN hits |-> <<i, hits[k]>>]])

MergePairsLeft(l, r, left_on, right_on, how) ==
    JoinIndexers(l, r, left_on, right_on, "left", FALSE)

MergePairsInner(l, r, left_on, right_on, how) ==
    JoinIndexers(l, r, left_on, right_on, "inner", FALSE)

MergePairsCross(l, r, left_on, right_on, how) ==
    JoinIndexers(l, r, left_on, right_on, how, TRUE)

MergePairs(l, r, left_on, right_on, how) ==
    JoinIndexers(l, r, left_on, right_on, how, FALSE)

(* The merged frame of the pairs: the columns of the left then those of    *)
(* the right, a name common to both sides getting the suffixes _x and _y;  *)
(* an index level used as a key is not a column of the result.             *)
MergeFrame(l, r, pairs) ==
    LET both == Range(l.columns) \cap Range(r.columns)
        lname(c) == IF c \in both THEN c \o "_x" ELSE c
        rname(c) == IF c \in both THEN c \o "_y" ELSE c
        lcols == [k \in DOMAIN l.columns |-> lname(l.columns[k])]
        rcols == [k \in DOMAIN r.columns |-> rname(r.columns[k])]
        cols == lcols \o rcols
        cell(p, c) ==
            IF c \in Range(lcols)
            THEN l.rows[p[1]][l.columns[CHOOSE k \in DOMAIN lcols : lcols[k] = c]]
            ELSE LET rc == r.columns[CHOOSE k \in DOMAIN rcols : rcols[k] = c]
                 IN IF p[2] = 0 THEN NullOf(rc) ELSE r.rows[p[2]][rc]
    IN Frame("None", RangeIndex(Len(pairs)), cols,
             [k \in DOMAIN pairs |-> [c \in Range(cols) |-> cell(pairs[k], c)]])

Merge(l, r, left_on, right_on, how) ==
    MergeFrame(l, r, MergePairs(l, r, left_on, right_on, how))

----------------------------------------------------------------------------
(* The string methods of the Series.str accessor.                          *)

StrEquals(s, prefix) == s = prefix

(* str.startswith(prefix)                                                  *)
StrStartsWith(s, prefix) ==
    /\ Len(s) >= Len(prefix)
    /\ SubSeq(s, 1, Len(prefix)) = prefix

Zeros(n) == [i \in 1..n |-> "0"]

SignChars == {"+", "-"}

ZfillNever(s, width, signs) == s

(* str.zfill(width): zeros on the left up to the width.  With signs (the   *)
(* str.zfill of Python, which pandas calls from 1.5 on) a leading sign     *)
(* stays first and the zeros follow it; without (the left pad of older     *)
(* pandas) a sign is a character like the others.                          *)
Zfill(s, width, signs) ==
    IF Len(s) >= width THEN s
    ELSE IF signs /\ Len(s) > 0 /\ s[1] \in SignChars
         THEN <<s[1]>> \o Zeros(width - Len(s)) \o Tail(s)
         ELSE Zeros(width - Len(s)) \o s

----------------------------------------------------------------------------
(* groupby.                                                                *)

(* The sequence of the elements of a set of codes, ascending.              *)
RECURSIVE SortCodes(_)
SortCodes(S) ==
    IF S = {} THEN <<>>
    ELSE LET m == CHOOSE x \in S : \A y \in S \ {x} : StrLess(x, y)
         IN <<m>> \o SortCodes(S \ {m})

(* The keys in the order of their first row: what sort=False would give.   *)
RECURSIVE FirstSeen(_, _, _)
FirstSeen(f, by, i) ==
    IF i > Len(f.rows) THEN <<>>
    ELSE (IF \E j \in 1..(i - 1) : f.rows[j][by] = f.rows[i][by] THEN <<>>
          ELSE <<f.rows[i][by]>>) \o FirstSeen(f, by, i + 1)

GroupKeysPerRow(f, by) == [i \in DOMAIN f.rows |-> f.rows[i][by]]

GroupKeysUnsorted(f, by) == FirstSeen(f, by, 1)

(* groupby(by): the distinct keys, sorted.                                 *)
GroupKeys(f, by) == SortCodes({f.rows[i][by] : i \in DOMAIN f.rows})

(* The rows of the group of a key, in the order of the frame.              *)
GroupRows(f, by, key) ==
    LET at == TruePositions([i \in DOMAIN f.rows |-> f.rows[i][by] = key])
    IN [k \in DOMAIN at |-> f.rows[at[k]]]

AggFirst(rows, col) == rows[1][col]

(* The 'sum' aggregation of a column over the rows of a group.             *)
AggSum(rows, col) == SumSeq([k \in DOMAIN rows |-> rows[k][col]])

(* grouped.agg({col: 'sum', ...}): one row per key, indexed by the key.    *)
GroupAggSum(f, by, cols) ==
    LET keys == GroupKeys(f, by)
    IN Frame(by, keys, cols,
             [k \in DOMAIN keys |->
                 [c \in Range(cols) |-> AggSum(GroupRows(f, by, keys[k]), c)]])

(* grouped.first()[col].values: per key, sorted, the value of the column   *)
(* in the first row of the group (no cell of a joined row is missing).     *)
GroupFirstValuesUnsorted(f, by, col) ==
    LET keys == GroupKeysUnsorted(f, by)
    IN [k \in DOMAIN keys |-> GroupRows(f, by, keys[k])[1][col]]

GroupFirstValues(f, by, col) ==
    LET keys == GroupKeys(f, by)
    IN [k \in DOMAIN keys |-> GroupRows(f, by, keys[k])[1][col]]

----------------------------------------------------------------------------
(* Series arithmetic: a missing operand gives a missing result.  A ratio   *)
(* is the exact fraction [num, den] in lowest terms; 0/0 is the undefined  *)
(* value (NaN) and 1/0 is inf, as the float division of pandas gives them  *)
(* without raising.                                                        *)

SeriesAdd(a, b) == IF a = NaN \/ b = NaN THEN NaN ELSE a + b

RatioNaN == [num |-> 0, den |-> 0]

RatioInf == [num |-> 1, den |-> 0]

(* numerator / denominator, one row                                        *)
SeriesDiv(n, d) ==
    IF n = NaN \/ d = NaN THEN RatioNaN
    ELSE IF d = 0 THEN (IF n = 0 THEN RatioNaN ELSE RatioInf)
    ELSE [num |-> n \div GCD(n, d), den |-> d \div GCD(n, d)]

ChoiceRatioToB(a, b) == SeriesDiv(a, b)

(* merged['Choice A'] / (merged['Choice A'] + merged['Choice B']), one row *)
ChoiceRatio(a, b) == SeriesDiv(a, SeriesAdd(a, b))

----------------------------------------------------------------------------
(* The functions of the module.  Each takes the heap and the ids of its    *)
(* arguments and gives the heap after the call and the id it returns;      *)
(* objects are appended to the heap and never reclaimed.                   *)

ZfillWidth == 2

GeographyColumns == <<"code_reg", "name_reg", "code_dep", "name_dep">>

SumColumns == <<"Registered", "Abstentions", "Null", "Choice A", "Choice B">>

ResultColumns == <<"code_reg", "name_reg">> \o SumColumns

merge_regions_and_departments(h, regions, departments) ==
    LET h1 == Append(h, Merge(h[departments], h[regions],
                              "region_code", "code", "inner"))
        a  == Len(h1)
        h2 == Append(h1, SelectColumns(h1[a],
                              <<"code_y", "name_y", "code_x", "name_x">>))
        b  == Len(h2)
        h3 == [h2 EXCEPT ![b] = RenameColumns(@, GeographyColumns)]
    IN [heap |-> h3, ret |-> b]

(* The same steps written on the caller's table: no copy, the rows dropped *)
(* and the codes padded in place.                                          *)
merge_referendum_and_areas_in_place(h, ref, areas, signs) ==
    LET mask == [i \in DOMAIN h[ref].rows |->
                    ~StrStartsWith(h[ref].rows[i]["Department code"], <<"Z">>)]
        h1 == [h EXCEPT ![ref] = BoolIndex(@, mask)]
        h2 == [h1 EXCEPT ![ref] = SetColumn(@, "Department code",
                  [i \in DOMAIN @.rows |->
                      Zfill(@.rows[i]["Department code"], ZfillWidth, signs)])]
        pairs == MergePairs(h2[ref], h2[areas],
                            "Department code", "code_dep", "inner")
        h3 == Append(h2, MergeFrame(h2[ref], h2[areas], pairs))
    IN [heap |-> h3, ret |-> Len(h3),
        origin |-> [k \in DOMAIN pairs |-> h2[ref].index[pairs[k][1]]]]

(* origin: for each row of the result, the label that its ballot record    *)
(* has in the index of the caller's table (the left indexer of the merge   *)
(* read through the index of the filtered copy).                           *)
merge_referendum_and_areas(h, ref, areas, signs) ==
    LET h1 == Append(h, h[ref])
        c  == Len(h1)
        mask == [i \in DOMAIN h1[c].rows |->
                    ~StrStartsWith(h1[c].rows[i]["Department code"], <<"Z">>)]
        h2 == Append(h1, BoolIndex(h1[c], mask))
        d  == Len(h2)
        h3 == [h2 EXCEPT ![d] = SetColumn(@, "Department code",
                  [i \in DOMAIN @.rows |->
                      Zfill(@.rows[i]["Department code"], ZfillWidth, signs)])]
        pairs == MergePairs(h3[d], h3[areas],
                            "Department code", "code_dep", "inner")
        h4 == Append(h3, MergeFrame(h3[d], h3[areas], pairs))
    IN [heap |-> h4, ret |-> Len(h4),
        origin |-> [k \in DOMAIN pairs |-> h3[d].index[pairs[k][1]]]]

compute_referendum_result_by_regions(h, areas) ==
    LET h1 == Append(h, ResetIndex(GroupAggSum(h[areas], "code_reg", SumColumns)))
        a  == Len(h1)
        h2 == [h1 EXCEPT ![a] = SetColumn(@, "name_reg",
                  GroupFirstValues(h[areas], "code_reg", "name_reg"))]
        h3 == Append(h2, SelectColumns(h2[a], ResultColumns))
        b  == Len(h3)
        h4 == [h3 EXCEPT ![b] = SetIndex(@, "code_reg")]
    IN [heap |-> h4, ret |-> b]

(* The drawing calls (subplots, plot, legend, title) act on the figure     *)
(* only and are not part of the state.                                     *)
plot_referendum_map(h, results, geojson) ==
    LET h1 == Append(h, ReadFile(geojson))
        g  == Len(h1)
        h2 == Append(h1, Merge(h1[g], h1[results], "code", "code_reg", "left"))
        m  == Len(h2)
        h3 == [h2 EXCEPT ![m] = SetColumn(@, "ratio",
                  [i \in DOMAIN @.rows |->
                      ChoiceRatio(@.rows[i]["Choice A"], @.rows[i]["Choice B"])])]
    IN [heap |-> h3, ret |-> m]

----------------------------------------------------------------------------
(* The input files.                                                        *)

File(columns, rows) == [columns |-> columns, rows |-> rows]

ReferendumColumns == <<"Department code">> \o SumColumns

Ballot(code, t) ==
    [c \in Range(ReferendumColumns) |->
        IF c = "Department code" THEN code ELSE t[c]]

Tallies ==
    { [c \in NumericColumns |->
          CASE c = "Registered" -> 100 [] c = "Abstentions" -> 20
            [] c = "Null" -> 5 [] c = "Choice A" -> 40 [] OTHER -> 35],
      [c \in NumericColumns |->
          CASE c = "Registered" -> 50 [] c = "Abstentions" -> 45
            [] c = "Null" -> 5 [] OTHER -> 0] }

ScenarioTally == CHOOSE t \in Tallies : t["Registered"] = 100

BallotCodes == {<<"1">>, <<"0", "1">>, <<"7", "5">>, <<"Z", "A">>, <<"-">>}

BallotRows == {Ballot(c, t) : c \in BallotCodes, t \in Tallies}

MapBallotRows ==
    {Ballot(<<"0", "1">>, ScenarioTally)}
        \cup {Ballot(<<"7", "5">>, t) : t \in Tallies}

Region(code, name) == [code |-> code, name |-> name]

RegionRows == {Region(c, n) : c \in RegionCodes, n \in RegionNames}

DepartmentName(code) ==
    CASE code = <<"0", "1">> -> "Ain" [] code = <<"7", "5">> -> "Paris"
      [] code = <<"Z", "A">> -> "Guadeloupe" [] OTHER -> "Nulle-Part"

Department(code, region_code) ==
    [code |-> code, name |-> DepartmentName(code), region_code |-> region_code]

DepartmentRows ==
    {Department(c, r) : c \in {<<"0", "1">>, <<"7", "5">>}, r \in RegionCodes}

Boundary(code) ==
    [code |-> code, nom |-> "region " \o code, geometry |-> "polygon " \o code]

BoundaryRows == {Boundary(c) : c \in RegionCodes}

RegionsFile(rows) == File(<<"code", "name">>, rows)

DepartmentsFile(rows) == File(<<"code", "name", "region_code">>, rows)

ReferendumFile(rows) == File(ReferendumColumns, rows)

GeoJsonFile(rows) == File(<<"code", "nom", "geometry">>, rows)

BothRegions ==
    <<Region("84", "Auvergne-Rhône-Alpes"), Region("11", "Île-de-France")>>

AllDepartments ==
    <<Department(<<"0", "1">>, "84"), Department(<<"7", "5">>, "11"),
      Department(<<"Z", "A">>, "11"), Department(<<"0", "-">>, "11")>>

(* Geographies of more rows than the exhaustive family reaches: a          *)
(* well-formed one (with a department "ZA" and a department "0-"), one     *)
(* with a region code under two names, one with a department code in two   *)
(* regions, one whose departments of region "11" have no region.           *)
Geographies ==
    { [regions |-> BothRegions, departments |-> AllDepartments],
      [regions |-> Append(BothRegions, Region("84", "Île-de-France")),
       departments |-> AllDepartments],
      [regions |-> BothRegions,
       departments |-> <<Department(<<"0", "1">>, "84"),
                         Department(<<"0", "1">>, "11"),
                         Department(<<"7", "5">>, "11")>>],
      [regions |-> <<Region("84", "Auvergne-Rhône-Alpes")>>,
       departments |-> AllDepartments] }

Data(ref, reg, dep, geo) ==
    [referendum |-> ReferendumFile(ref), regions |-> RegionsFile(reg),
     departments |-> DepartmentsFile(dep), geojson |-> GeoJsonFile(geo)]

BothBoundaries == <<Boundary("84"), Boundary("11")>>

(* Every regions and departments file within the bounds, with the ballot   *)
(* record of the concrete scenario.                                        *)
GeographyInputs ==
    {Data(<<Ballot(<<"1">>, ScenarioTally)>>, reg, dep, BothBoundaries) :
        reg \in SeqsUpTo(RegionRows, MaxRegions),
        dep \in SeqsUpTo(DepartmentRows, MaxDepartments)}

(* Every referendum file within the bounds, over the geographies.          *)
BallotInputs ==
    {Data(ref, g.regions, g.departments, BothBoundaries) :
        ref \in SeqsUpTo(BallotRows, MaxBallots), g \in Geographies}

(* Every boundary file within the bounds, over the geographies.            *)
MapInputs ==
    {Data(ref, g.regions, g.departments, geo) :
        ref \in SeqsUpTo(MapBallotRows, MaxBallots), g \in Geographies,
        geo \in SeqsUpTo(BoundaryRows, MaxBoundaries)}

----------------------------------------------------------------------------
(* The run of the __main__ block.                                          *)

Init ==
    /\ data \in GeographyInputs \cup BallotInputs \cup MapInputs
    /\ pandas_zfill_signs \in BOOLEAN
    /\ heap = <<>>
    /\ pc = "load_data"
    /\ referendum = 0
    /\ df_reg = 0
    /\ df_dep = 0
    /\ regions_and_departments = 0
    /\ referendum_and_areas = 0
    /\ referendum_results = 0
    /\ map_result = 0
    /\ origin = <<>>

LoadData ==
    /\ pc = "load_data"
    /\ heap' = <<ReadFile(data.referendum), ReadFile(data.regions),
                 ReadFile(data.departments)>>
    /\ referendum' = 1
    /\ df_reg' = 2
    /\ df_dep' = 3
    /\ pc' = "merge_regions_and_departments"
    /\ UNCHANGED <<data, pandas_zfill_signs, regions_and_departments,
                   referendum_and_areas, referendum_results, map_result, origin>>

MergeRegionsAndDepartments ==
    /\ pc = "merge_regions_and_departments"
    /\ LET r == merge_regions_and_departments(heap, df_reg, df_dep)
       IN /\ heap' = r.heap
          /\ regions_and_departments' = r.ret
    /\ pc' = "merge_referendum_and_areas"
    /\ UNCHANGED <<data, pandas_zfill_signs, referendum, df_reg, df_dep,
                   referendum_and_areas, referendum_results, map_result, origin>>

MergeReferendumAndAreas ==
    /\ pc = "merge_referendum_and_areas"
    /\ LET r == merge_referendum_and_areas(heap, referendum,
                    regions_and_departments, pandas_zfill_signs)
       IN /\ heap' = r.heap
          /\ referendum_and_areas' = r.ret
          /\ origin' = r.origin
    /\ pc' = "compute_referendum_result_by_regions"
    /\ UNCHANGED <<data, pandas_zfill_signs, referendum, df_reg, df_dep,
                   regions_and_departments, referendum_results, map_result>>

ComputeReferendumResultByRegions ==
    /\ pc = "compute_referendum_result_by_regions"
    /\ LET r == compute_referendum_result_by_regions(heap, referendum_and_areas)
       IN /\ heap' = r.heap
          /\ referendum_results' = r.ret
    /\ pc' = "plot_referendum_map"
    /\ UNCHANGED <<data, pandas_zfill_signs, referendum, df_reg, df_dep,
                   regions_and_departments, referendum_and_areas, map_result,
                   origin>>

PlotReferendumMap ==
    /\ pc = "plot_referendum_map"
    /\ LET r == plot_referendum_map(heap, referendum_results, data.geojson)
       IN /\ heap' = r.heap
          /\ map_result' = r.ret
    /\ pc' = "done"
    /\ UNCHANGED <<data, pandas_zfill_signs, referendum, df_reg, df_dep,
                   regions_and_departments, referendum_and_areas,
                   referendum_results, origin>>

Next ==
    \/ LoadData
    \/ MergeRegionsAndDepartments
    \/ MergeReferendumAndAreas
    \/ ComputeReferendumResultByRegions
    \/ PlotReferendumMap

Spec == Init /\ [][Next]_vars

----------------------------------------------------------------------------
(* Properties.                                                             *)

RefRows == data.referendum.rows

RegRows == data.regions.rows

DepRows == data.departments.rows

GeoRows == data.geojson.rows

BeginsWithZ(code) == Len(code) > 0 /\ code[1] = "Z"

UniqueRegionCodes ==
    \A i, j \in DOMAIN RegRows : RegRows[i].code = RegRows[j].code => i = j

UniqueDepartmentCodes ==
    \A i, j \in DOMAIN DepRows : DepRows[i].code = DepRows[j].code => i = j

(* The ballot record that row k of referendum_and_areas was joined from.   *)
BallotOf(k) == RefRows[origin[k] + 1]

Column(f, c) == [i \in DOMAIN f.rows |-> f.rows[i][c]]

(* C1: no row of the output of merge_referendum_and_areas comes from a     *)
(* ballot record whose 'Department code' begins with "Z", whatever the     *)
(* geography table holds.                                                  *)
C1_NoZRows ==
    referendum_and_areas # 0 =>
        /\ Len(origin) = Len(heap[referendum_and_areas].rows)
        /\ \A k \in DOMAIN origin : ~BeginsWithZ(BallotOf(k)["Department code"])

(* A "ZA" ballot record met a geography with a department "ZA", and other  *)
(* records were joined.                                                    *)
C1_Witness ==
    /\ referendum_and_areas # 0
    /\ \E i \in DOMAIN RefRows : RefRows[i]["Department code"] = <<"Z", "A">>
    /\ \E j \in DOMAIN heap[regions_and_departments].rows :
           heap[regions_and_departments].rows[j]["code_dep"] = <<"Z", "A">>
    /\ Len(origin) > 0

(* C2: the output of compute_referendum_result_by_regions is indexed by    *)
(* code_reg, its keys are exactly the code_reg values of the joined rows,  *)
(* and no key appears twice.                                               *)
C2_OneRowPerRegion ==
    referendum_results # 0 =>
        LET out == heap[referendum_results]
            inn == heap[referendum_and_areas]
        IN /\ out.index_name = "code_reg"
           /\ Len(out.index) = Len(out.rows)
           /\ Range(out.index) = Range(Column(inn, "code_reg"))
           /\ \A i, j \in DOMAIN out.index : out.index[i] = out.index[j] => i = j

(* Two regions, one of them with several joined rows.                      *)
C2_Witness ==
    /\ referendum_results # 0
    /\ Len(heap[referendum_results].index) = 2
    /\ Len(heap[referendum_and_areas].rows) > 2

(* C3: the sum of Registered over the output of                            *)
(* compute_referendum_result_by_regions equals the sum of Registered over  *)
(* the rows of merge_referendum_and_areas.                                 *)
C3_RegisteredConserved ==
    referendum_results # 0 =>
        SumSeq(Column(heap[referendum_results], "Registered"))
            = SumSeq(Column(heap[referendum_and_areas], "Registered"))

(* A region sums several joined rows of different counts.                  *)
C3_Witness ==
    /\ referendum_results # 0
    /\ LET inn == heap[referendum_and_areas]
       IN \E i, j \in DOMAIN inn.rows :
              /\ inn.rows[i]["code_reg"] = inn.rows[j]["code_reg"]
              /\ inn.rows[i]["Registered"] # inn.rows[j]["Registered"]

(* C4: with unique region codes, every row of the output of                *)
(* merge_regions_and_departments has a code_dep of the departments table   *)
(* and a code_reg of the regions table; the output has the four geography  *)
(* columns and at most as many rows as the departments table, and as many  *)
(* exactly when every department's region_code is a region code.           *)
C4_GeographyJoin ==
    (regions_and_departments # 0 /\ UniqueRegionCodes) =>
        LET out == heap[regions_and_departments]
            regs == {RegRows[i].code : i \in DOMAIN RegRows}
            deps == {DepRows[i].code : i \in DOMAIN DepRows}
        IN /\ out.columns = GeographyColumns
           /\ \A k \in DOMAIN out.rows :
                  /\ out.rows[k]["code_dep"] \in deps
                  /\ out.rows[k]["code_reg"] \in regs
           /\ Len(out.rows) <= Len(DepRows)
           /\ (Len(out.rows) = Len(DepRows))
                  <=> (\A i \in DOMAIN DepRows : DepRows[i].region_code \in regs)

(* One department is joined and another, of a missing region, is dropped.  *)
C4_Witness ==
    /\ regions_and_departments # 0
    /\ UniqueRegionCodes
    /\ Len(heap[regions_and_departments].rows) = 1
    /\ Len(DepRows) = 2

(* The padding as the claim states it.                                     *)
PadLeft(code) == IF Len(code) = 1 THEN <<"0">> \o code ELSE code

IsSign(code) == Len(code) = 1 /\ code[1] \in SignChars

(* The ballot records in Codes are joined on their padded code: each row   *)
(* of the output holds the geography row of that code, and each geography  *)
(* row of that code is joined.                                             *)
JoinedOnPadded(Codes) ==
    LET out == heap[referendum_and_areas]
        geo == heap[regions_and_departments]
    IN /\ \A k \in DOMAIN out.rows :
              BallotOf(k)["Department code"] \in Codes =>
                  out.rows[k]["code_dep"] = PadLeft(BallotOf(k)["Department code"])
       /\ \A i \in DOMAIN RefRows : \A j \in DOMAIN geo.rows :
              ( /\ RefRows[i]["Department code"] \in Codes
                /\ ~BeginsWithZ(RefRows[i]["Department code"])
                /\ geo.rows[j]["code_dep"] = PadLeft(RefRows[i]["Department code"]) )
              => \E k \in DOMAIN out.rows :
                     /\ origin[k] = i - 1
                     /\ \A c \in Range(GeographyColumns) :
                            out.rows[k][c] = geo.rows[j][c]
                     /\ out.rows[k]["Registered"] = RefRows[i]["Registered"]

IsScenario ==
    /\ RefRows = <<Ballot(<<"1">>, ScenarioTally)>>
    /\ RegRows = <<Region("84", "Auvergne-Rhône-Alpes")>>
    /\ DepRows = <<Department(<<"0", "1">>, "84")>>

ScenarioResult ==
    (IsScenario /\ referendum_results # 0) =>
        LET out == heap[referendum_results]
        IN /\ out.index = <<"84">>
           /\ Len(out.rows) = 1
           /\ out.rows[1]["name_reg"] = "Auvergne-Rhône-Alpes"
           /\ out.rows[1]["Registered"] = 100

(* C5 as stated: every ballot record that passes the "Z" filter is joined  *)
(* on its code padded with zeros on the left to width 2, and the concrete  *)
(* scenario gives one row "84".                                            *)
C5_AsStated ==
    /\ referendum_and_areas # 0 => JoinedOnPadded(BallotCodes)
    /\ ScenarioResult

(* C5: as C5_AsStated, for the codes other than a lone "+" or "-".         *)
C5_ZeroPadded ==
    /\ referendum_and_areas # 0 =>
           JoinedOnPadded({c \in BallotCodes : ~IsSign(c)})
    /\ ScenarioResult

(* The concrete scenario has run: the code "1" was joined as "01".         *)
C5_Witness ==
    /\ IsScenario
    /\ referendum_results # 0
    /\ Len(origin) = 1

(* C6: in the table plot_referendum_map returns, a row whose Choice A +    *)
(* Choice B is not zero has ratio * (Choice A + Choice B) = Choice A, and  *)
(* a row where the sum is zero has the undefined ratio.                    *)
C6_Ratio ==
    map_result # 0 =>
        LET m == heap[map_result]
        IN \A i \in DOMAIN m.rows :
               LET a == m.rows[i]["Choice A"]
                   b == m.rows[i]["Choice B"]
                   r == m.rows[i]["ratio"]
               IN (a # NaN /\ b # NaN) =>
                      IF a + b = 0 THEN r = RatioNaN
                      ELSE r.den # 0 /\ r.num * (a + b) = a * r.den

(* The function has returned a table with a zero-sum row and another row.  *)
C6_Witness ==
    /\ pc = "done"
    /\ LET m == heap[map_result]
       IN /\ \E i \in DOMAIN m.rows :
                 m.rows[i]["Choice A"] = 0 /\ m.rows[i]["Choice B"] = 0
          /\ \E i \in DOMAIN m.rows : m.rows[i]["Choice A"] > 0

(* C7: no step changes an object that exists before it (the arguments of   *)
(* every call among them), and the caller's referendum table is always the *)
(* table that was loaded.                                                  *)
C7_NoArgumentMutated ==
    /\ [][\A id \in DOMAIN heap : heap'[id] = heap[id]]_vars
    /\ [](referendum # 0 => heap[referendum] = ReadFile(data.referendum))

(* After the run the caller's table still has a "Z" row and a short code.  *)
C7_Witness ==
    /\ pc = "done"
    /\ \E i \in DOMAIN heap[referendum].rows :
           BeginsWithZ(heap[referendum].rows[i]["Department code"])
    /\ \E i \in DOMAIN heap[referendum].rows :
           Len(heap[referendum].rows[i]["Department code"]) = 1

(* Every joined row of a region carries the name_reg of the output row of  *)
(* that region.                                                            *)
NameShared ==
    LET out == heap[referendum_results]
        inn == heap[referendum_and_areas]
    IN \A k \in DOMAIN out.rows : \A i \in DOMAIN inn.rows :
           inn.rows[i]["code_reg"] = out.index[k] =>
               inn.rows[i]["name_reg"] = out.rows[k]["name_reg"]

(* C8 as stated: the name_reg of an output row is the name shared by all   *)
(* joined rows of its region.                                              *)
C8_AsStated == referendum_results # 0 => NameShared

(* C8: as C8_AsStated, when the region codes of the regions table are      *)
(* unique.                                                                 *)
C8_NameOfRegion == (referendum_results # 0 /\ UniqueRegionCodes) => NameShared

(* Two regions of different names in the output, the first joined row of   *)
(* the greater code.                                                       *)
C8_Witness ==
    /\ referendum_results # 0
    /\ UniqueRegionCodes
    /\ Len(heap[referendum_results].rows) = 2
    /\ heap[referendum_results].rows[1]["name_reg"]
           # heap[referendum_results].rows[2]["name_reg"]
    /\ heap[referendum_and_areas].rows[1]["code_reg"] = "84"

(* C9: the table plot_referendum_map returns has one row per boundary of   *)
(* the boundary file, in its order, and a boundary whose code is no key of *)
(* the results has null in every result field.                             *)
C9_LeftJoin ==
    map_result # 0 =>
        LET m == heap[map_result]
            keys == Range(heap[referendum_results].index)
        IN /\ Len(m.rows) = Len(GeoRows)
           /\ \A i \in DOMAIN m.rows :
                  /\ m.rows[i]["code"] = GeoRows[i].code
                  /\ m.rows[i]["geometry"] = GeoRows[i].geometry
                  /\ GeoRows[i].code \notin keys =>
                         \A c \in Range(Tail(ResultColumns)) :
                             m.rows[i][c] = NullOf(c)

(* A boundary with results and a boundary without.                         *)
C9_Witness ==
    /\ map_result # 0
    /\ \E i \in DOMAIN GeoRows :
           GeoRows[i].code \in Range(heap[referendum_results].index)
    /\ \E i \in DOMAIN GeoRows :
           GeoRows[i].code \notin Range(heap[referendum_results].index)

(* C10: with unique department codes and unique region codes, a ballot     *)
(* record is joined at most once, and the total of each count over the     *)
(* output of compute_referendum_result_by_regions is at most its total     *)
(* over the ballot records whose code does not begin with "Z".             *)
C10_NoDoubleCounting ==
    (referendum_results # 0 /\ UniqueRegionCodes /\ UniqueDepartmentCodes) =>
        LET kept == TruePositions([i \in DOMAIN RefRows |->
                        ~BeginsWithZ(RefRows[i]["Department code"])])
        IN /\ \A k, l \in DOMAIN origin : origin[k] = origin[l] => k = l
           /\ \A c \in Range(SumColumns) :
                  SumSeq(Column(heap[referendum_results], c))
                      <= SumSeq([n \in DOMAIN kept |-> RefRows[kept[n]][c]])

(* Two ballot records counted, in a well-formed geography of several       *)
(* departments.                                                            *)
C10_Witness ==
    /\ referendum_results # 0
    /\ UniqueRegionCodes
    /\ UniqueDepartmentCodes
    /\ Len(origin) = 2
    /\ Len(DepRows) > 2

====
